---- MODULE Spec2Model ----
(***************************************************************************)
(* ProfileEditForm (src/src/components/user/profile-edit-form.tsx) as a    *)
(* state machine.  The component's React state, the react-hook-form field  *)
(* values, the asynchronous continuations that are in flight (FileReader   *)
(* callbacks, /api/upload requests, userController.updateProfile calls)    *)
(* and the calls made on the parent's callbacks are the variables; every   *)
(* event handler, and every resumption of a handler after an await, is one *)
(* action.  The browser is single-threaded, so each of them is atomic.     *)
(*                                                                         *)
(* Strings whose content the code inspects (MIME type, website, username,  *)
(* bio) are sequences of one-character strings; strings that are only      *)
(* stored and compared (URLs, ids, toast kinds) are TLA+ strings.          *)
(***************************************************************************)
EXTENDS Naturals, Integers, Sequences, FiniteSets

VARIABLES
    user,                 \* the `user` prop
    isSubmitting,         \* useState, line 86
    uploadingImage,       \* useState, line 87
    profileImage,         \* useState, line 88: name of the selected File, or NULL
    profileImagePreview,  \* useState, line 89
    fields,               \* react-hook-form values
    formErrors,           \* fields whose FormMessage shows a validation error
    readers,              \* per file, the FileReaders whose onloadend has not fired
    uploads,              \* handleImageChange continuations awaiting fetch
    submits,              \* onSubmit continuations awaiting updateProfile
    lastToast,            \* kind of the most recent toast()
    onUpdateCalls,        \* arguments of the onUpdate calls made so far
    onCloseCalled,        \* onClose has been invoked
    dialogOpen,           \* the `open` prop given to Dialog
    lastUpload,           \* history: the last file selected and how its upload
                          \* settled, since the last Remove click
    lastResult,           \* history: what the last settled updateProfile gave
    submitCount           \* history: number of updateProfile calls made

vars == <<user, isSubmitting, uploadingImage, profileImage, profileImagePreview,
          fields, formErrors, readers, uploads, submits, lastToast,
          onUpdateCalls, onCloseCalled, dialogOpen, lastUpload, lastResult,
          submitCount>>

-----------------------------------------------------------------------------
(* Bounds of the exploration *)

\* updateProfile calls made in one run
MaxSubmits == 2
\* reads of one file that are pending at the same time
MaxReaders == 1

-----------------------------------------------------------------------------
(* Values *)

NULL == "<null>"

\* JavaScript truthiness of a string-or-null value, and a || b
Falsy(x) == x = NULL \/ x = ""
Or(a, b) == IF Falsy(a) THEN b ELSE a

\* a character string of n letters
Rep(n) == [i \in 1..n |-> "a"]

\* null in a position that otherwise holds a character string
TextNull == <<"<null>">>

\* the value passed on as it is, without `|| null`
TextOrNull_AsIs(s) == s

\* s || null
TextOrNull(s) == IF s = <<>> THEN TextNull ELSE s

\* an optional Date is <<y, m, d>> or <<>> (undefined)
NoDate == <<>>
Dates == {NoDate, <<1990, 5, 17>>}
DateNull == <<-1>>
\* Date.prototype.toISOString: the date followed by the time of day
ToISOString(d) == d \o <<0, 0, 0, 0>>

StartsWith(s, p) == Len(s) >= Len(p) /\ SubSeq(s, 1, Len(p)) = p

-----------------------------------------------------------------------------
(* The user prop *)

PersistedUrl == "https://cdn/old.png"

Users ==
    { [id |-> "u1", username |-> Rep(3), pfp |-> PersistedUrl],
      [id |-> "u1", username |-> Rep(3), pfp |-> NULL],
      [id |-> "",   username |-> Rep(3), pfp |-> PersistedUrl] }

\* the check of the user id left out
UserMissing_Unchecked == FALSE

\* !user || !user.id
UserMissing == Falsy(user.id)

\* user.profile?.pfp || null
PersistedPfp == Or(user.pfp, NULL)

-----------------------------------------------------------------------------
(* Files the viewer can pick *)

MaxFileSize == 5 * 1024 * 1024

ImagePrefix == <<"i","m","a","g","e","/">>

Files == {"a.png", "b.jpg", "big.png", "doc.pdf"}

FileSize(f) ==
    CASE f = "a.png"   -> 1024
      [] f = "b.jpg"   -> MaxFileSize
      [] f = "big.png" -> MaxFileSize + 1
      [] f = "doc.pdf" -> 1024

FileType(f) ==
    CASE f = "a.png"   -> <<"i","m","a","g","e","/","p","n","g">>
      [] f = "b.jpg"   -> <<"i","m","a","g","e","/","j","p","e","g">>
      [] f = "big.png" -> <<"i","m","a","g","e","/","p","n","g">>
      [] f = "doc.pdf" -> <<"a","p","p","l","i","c","a","t","i","o","n","/","p","d","f">>

\* FileReader.readAsDataURL: reader.result when the read succeeded
DataUrl(f) ==
    CASE f = "a.png"   -> "data:image/png;base64,AAAA"
      [] f = "b.jpg"   -> "data:image/jpeg;base64,BBBB"
      [] f = "big.png" -> "data:image/png;base64,CCCC"
      [] f = "doc.pdf" -> "data:application/pdf;base64,DDDD"

\* the size limit written as 50 MB
FileTooLarge_FiftyMb(f) == FileSize(f) > 50 * 1024 * 1024

\* file.size > 5 * 1024 * 1024
FileTooLarge(f) == FileSize(f) > MaxFileSize

\* file.type.startsWith("image/")
IsImageType(f) == StartsWith(FileType(f), ImagePrefix)

-----------------------------------------------------------------------------
(* What /api/upload can answer *)

\* thrown: fetch rejects; ok: uploadResponse.ok; parses: uploadResponse.json()
\* resolves; url: uploadResult.url; dataUrl: uploadResult.data?.url
Response(thrown, ok, parses, url, dataUrl) ==
    [thrown |-> thrown, ok |-> ok, parses |-> parses, url |-> url,
     dataUrl |-> dataUrl]

Responses ==
    { Response(TRUE, FALSE, FALSE, NULL, NULL),
      Response(FALSE, FALSE, TRUE, "https://x/img.png", NULL),
      Response(FALSE, TRUE, FALSE, NULL, NULL),
      Response(FALSE, TRUE, TRUE, NULL, NULL),
      Response(FALSE, TRUE, TRUE, "", NULL),
      Response(FALSE, TRUE, TRUE, "https://x/img.png", NULL),
      Response(FALSE, TRUE, TRUE, "https://x/img.png", "https://x/img2.png"),
      Response(FALSE, TRUE, TRUE, NULL, "https://x/img2.png") }

\* uploadResult.url || uploadResult.data?.url
ImageUrl(resp) == Or(resp.url, resp.dataUrl)

\* the try block of handleImageChange throws
UploadThrows(resp) ==
    \/ resp.thrown
    \/ ~resp.ok
    \/ ~resp.parses
    \/ Falsy(ImageUrl(resp))

-----------------------------------------------------------------------------
(* profileFormSchema *)

UsernameMin == 3
UsernameMax == 30
BioMax == 160

Alpha == {"a","b","c","d","e","f","g","h","i","j","k","l","m",
          "n","o","p","q","r","s","t","u","v","w","x","y","z"}
Digits == {"0","1","2","3","4","5","6","7","8","9"}
SchemeChars == Alpha \cup Digits \cup {"+", "-", "."}
SpecialSchemes == { <<"h","t","t","p">>, <<"h","t","t","p","s">>,
                    <<"f","t","p">>, <<"w","s">>, <<"w","s","s">> }

\* s with its leading slashes dropped
RECURSIVE SkipSlashes(_)
SkipSlashes(s) ==
    IF s # <<>> /\ Head(s) \in {"/", "\\"} THEN SkipSlashes(Tail(s)) ELSE s

\* z.string().url(): `new URL(s)` does not throw.  s is an absolute URL: a
\* scheme, a colon, and for the special schemes a host that is not empty.
IsUrl(s) ==
    \E i \in 2..Len(s) :
        /\ s[i] = ":"
        /\ s[1] \in Alpha
        /\ \A j \in 1..(i - 1) : s[j] \in SchemeChars
        /\ SubSeq(s, 1, i - 1) \in SpecialSchemes =>
              LET host == SkipSlashes(SubSeq(s, i + 1, Len(s)))
              IN  host # <<>> /\ Head(host) \notin {"?", "#", ":"}

\* the two limits taken as exclusive
UsernameOk_Exclusive(u) == Len(u) > UsernameMin /\ Len(u) < UsernameMax

\* username: z.string().min(3).max(30)
UsernameOk(u) == Len(u) >= UsernameMin /\ Len(u) <= UsernameMax

\* bio: z.string().max(160).optional()
BioOk(b) == Len(b) <= BioMax

\* website: z.string().url().optional().or(z.literal(""))
WebsiteOk(w) == IsUrl(w) \/ w = <<>>

\* the fields zodResolver reports an error for
SchemaErrors(data) ==
    {n \in {"username"} : ~UsernameOk(data.username)}
      \cup {n \in {"bio"} : ~BioOk(data.bio)}
      \cup {n \in {"website"} : ~WebsiteOk(data.website)}

\* what the viewer can type
Usernames == {Rep(2), Rep(3), Rep(30), Rep(31)}
Bios == {<<>>, <<"h","i">>, Rep(161)}
Websites ==
    { <<>>,
      <<"n","o","t","-","a","-","u","r","l">>,
      <<"h","t","t","p","s",":","/","/","x",".","i","o">>,
      <<"h","t","t","p",":","/","/">> }

\* defaultValues of useForm
DefaultValues(u) ==
    [username |-> u.username, bio |-> <<>>, website |-> <<>>,
     birthdate |-> NoDate]

\* profileData of onSubmit
ProfileData(data, preview) ==
    [username |-> data.username,
     profile  |-> [bio       |-> TextOrNull(data.bio),
                   website   |-> TextOrNull(data.website),
                   birthdate |-> IF data.birthdate # NoDate
                                 THEN ToISOString(data.birthdate)
                                 ELSE DateNull,
                   pfp       |-> preview]]

\* what userController.updateProfile can resolve to
Entities == {"user-v2", "user-v3"}
UpdateResults == Entities \cup {NULL, "<throws>"}

\* a rejected call alone counts as a failure
UpdateFailed_ThrowOnly(r) == r = "<throws>"

\* !updatedUser, or the call rejected
UpdateFailed(r) == r = "<throws>" \/ Falsy(r)

-----------------------------------------------------------------------------
(* Rendered controls *)

\* file input and Change Photo button never disabled
UploadDisabled_Never == FALSE

\* file input and Change Photo button: disabled={uploadingImage}
UploadDisabled == uploadingImage

\* the submit button disabled by isSubmitting alone
SubmitDisabled_IgnoresUpload == isSubmitting

\* submit button: disabled={isSubmitting || uploadingImage}
SubmitDisabled == isSubmitting \/ uploadingImage

\* Remove button: profileImagePreview && profileImagePreview !== user.profile?.pfp
RemoveShown == ~Falsy(profileImagePreview) /\ profileImagePreview # user.pfp

NoUpload == [outcome |-> "none", file |-> NULL, url |-> NULL]
Selected(f) == [outcome |-> "selected", file |-> f, url |-> NULL]

-----------------------------------------------------------------------------
Init ==
    /\ user \in Users
    /\ isSubmitting = FALSE
    /\ uploadingImage = FALSE
    /\ profileImage = NULL
    /\ profileImagePreview = PersistedPfp
    /\ fields = DefaultValues(user)
    /\ formErrors = {}
    /\ readers = [f \in Files |-> 0]
    /\ uploads = {}
    /\ submits = {}
    /\ lastToast = "none"
    /\ onUpdateCalls = <<>>
    /\ onCloseCalled = FALSE
    /\ dialogOpen = TRUE
    /\ lastUpload = NoUpload
    /\ lastResult = NULL
    /\ submitCount = 0

-----------------------------------------------------------------------------
(* handleImageChange, up to its await: the change event of the file input. *)
(* f is the first selected file, or NULL when the selection is empty.      *)

handleImageChange(f) ==
    /\ ~UploadDisabled
    /\ f # NULL => readers[f] < MaxReaders
    /\ IF f = NULL
       THEN \* line 113: no file, return
            UNCHANGED <<profileImage, profileImagePreview, uploadingImage,
                        readers, uploads, lastToast, lastUpload>>
       ELSE IF UserMissing
       THEN /\ lastToast' = "missing-user"
            /\ lastUpload' = Selected(f)
            /\ UNCHANGED <<profileImage, profileImagePreview, uploadingImage,
                           readers, uploads>>
       ELSE IF FileTooLarge(f)
       THEN /\ lastToast' = "file-size"
            /\ lastUpload' = Selected(f)
            /\ UNCHANGED <<profileImage, profileImagePreview, uploadingImage,
                           readers, uploads>>
       ELSE IF ~IsImageType(f)
       THEN /\ lastToast' = "file-type"
            /\ lastUpload' = Selected(f)
            /\ UNCHANGED <<profileImage, profileImagePreview, uploadingImage,
                           readers, uploads>>
       ELSE /\ profileImage' = f
            /\ readers' = [readers EXCEPT ![f] = @ + 1]
            /\ uploadingImage' = TRUE
            /\ uploads' = uploads \cup
                 {[file |-> f, before |-> profileImagePreview]}
            /\ lastUpload' = Selected(f)
            /\ UNCHANGED <<profileImagePreview, lastToast>>
    /\ UNCHANGED <<user, isSubmitting, fields, formErrors, submits,
                   onUpdateCalls, onCloseCalled, dialogOpen, submitCount,
                   lastResult>>

(* reader.onloadend, lines 149-151, with reader.result as its argument *)
readerOnLoadEnd(f, result) ==
    /\ readers[f] > 0
    /\ readers' = [readers EXCEPT ![f] = @ - 1]
    /\ profileImagePreview' = result
    /\ UNCHANGED <<user, isSubmitting, uploadingImage, profileImage, fields,
                   formErrors, uploads, submits, lastToast, onUpdateCalls,
                   onCloseCalled, dialogOpen, lastUpload,
                   submitCount, lastResult>>

(* the read of f succeeded *)
readerLoaded(f) == readerOnLoadEnd(f, DataUrl(f))

(* the read of f failed: onloadend fires all the same, reader.result is null *)
readerFailed(f) == readerOnLoadEnd(f, NULL)

(* handleImageChange with an imageUrl, lines 181-187 *)
uploadOk(imageUrl) ==
    /\ profileImagePreview' = imageUrl
    /\ lastToast' = "upload-ok"
    /\ UNCHANGED profileImage

\* the catch block without the revert of the preview
uploadCatch_NoRevert ==
    /\ lastToast' = "upload-failed"
    /\ profileImage' = NULL
    /\ UNCHANGED profileImagePreview

(* the catch block of handleImageChange, lines 188-197 *)
uploadCatch ==
    /\ lastToast' = "upload-failed"
    /\ profileImagePreview' = PersistedPfp
    /\ profileImage' = NULL

\* setUploadingImage(false) as the last statement of the try block, no finally
uploadSettled_NoFinally(u, resp) ==
    /\ u \in uploads
    /\ uploads' = uploads \ {u}
    /\ IF UploadThrows(resp)
       THEN /\ uploadCatch
            /\ lastUpload' = [outcome |-> "failed", file |-> u.file, url |-> NULL]
            /\ UNCHANGED uploadingImage
       ELSE /\ uploadOk(ImageUrl(resp))
            /\ lastUpload' =
                 [outcome |-> "ok", file |-> u.file, url |-> ImageUrl(resp)]
            /\ uploadingImage' = FALSE
    /\ UNCHANGED <<user, isSubmitting, fields, formErrors, readers, submits,
                   onUpdateCalls, onCloseCalled, dialogOpen,
                   submitCount, lastResult>>

(* handleImageChange resumed after `await fetch`, lines 170-200 *)
uploadSettled(u, resp) ==
    /\ u \in uploads
    /\ uploads' = uploads \ {u}
    /\ IF UploadThrows(resp)
       THEN /\ uploadCatch
            /\ lastUpload' = [outcome |-> "failed", file |-> u.file, url |-> NULL]
       ELSE /\ uploadOk(ImageUrl(resp))
            /\ lastUpload' =
                 [outcome |-> "ok", file |-> u.file, url |-> ImageUrl(resp)]
    /\ uploadingImage' = FALSE    \* finally
    /\ UNCHANGED <<user, isSubmitting, fields, formErrors, readers, submits,
                   onUpdateCalls, onCloseCalled, dialogOpen,
                   submitCount, lastResult>>

(* onClick of the Remove button, lines 333-336 *)
removeClick ==
    /\ RemoveShown
    /\ ~uploadingImage
    /\ profileImage' = NULL
    /\ profileImagePreview' = PersistedPfp
    /\ lastUpload' = NoUpload
    /\ UNCHANGED <<user, isSubmitting, uploadingImage, fields, formErrors,
                   readers, uploads, submits, lastToast, onUpdateCalls,
                   onCloseCalled, dialogOpen,
                   submitCount, lastResult>>

(* Cancel button and Dialog onOpenChange: onClose() *)
cancelClick ==
    /\ onCloseCalled' = TRUE
    /\ UNCHANGED <<user, isSubmitting, uploadingImage, profileImage,
                   profileImagePreview, fields, formErrors, readers, uploads,
                   submits, lastToast, onUpdateCalls, dialogOpen, lastUpload,
                   submitCount, lastResult>>

(* field.onChange of one FormField *)
editField(name, value) ==
    /\ fields[name] # value
    /\ fields' = [fields EXCEPT ![name] = value]
    /\ UNCHANGED <<user, isSubmitting, uploadingImage, profileImage,
                   profileImagePreview, formErrors, readers, uploads, submits,
                   lastToast, onUpdateCalls, onCloseCalled, dialogOpen,
                   lastUpload,
                   submitCount, lastResult>>

(* form.handleSubmit(onSubmit): the resolver, then onSubmit up to its await *)
handleSubmit ==
    /\ ~SubmitDisabled
    /\ submitCount < MaxSubmits
    /\ formErrors' = SchemaErrors(fields)
    /\ IF SchemaErrors(fields) # {}
       THEN UNCHANGED <<isSubmitting, submits, lastToast, submitCount>>
       ELSE IF UserMissing
       THEN /\ lastToast' = "missing-user"
            /\ UNCHANGED <<isSubmitting, submits, submitCount>>
       ELSE /\ isSubmitting' = TRUE
            /\ submitCount' = submitCount + 1
            /\ submits' = submits \cup
                 {[n |-> submitCount',
                   payload |-> ProfileData(fields, profileImagePreview)]}
            /\ UNCHANGED lastToast
    /\ UNCHANGED <<user, uploadingImage, profileImage, profileImagePreview,
                   fields, readers, uploads, onUpdateCalls, onCloseCalled,
                   dialogOpen, lastUpload, lastResult>>

\* the success path without the call of onUpdate
updateOk_NoNotify(updatedUser) ==
    /\ lastToast' = "update-ok"
    /\ UNCHANGED onUpdateCalls

(* onSubmit after a truthy updatedUser, lines 245-250 *)
updateOk(updatedUser) ==
    /\ lastToast' = "update-ok"
    /\ onUpdateCalls' = Append(onUpdateCalls, updatedUser)

(* the catch block of onSubmit, lines 251-257 *)
updateCatch ==
    /\ lastToast' = "update-failed"
    /\ UNCHANGED onUpdateCalls

(* onSubmit resumed after `await userController.updateProfile`, lines 241-260 *)
updateSettled(s, result) ==
    /\ s \in submits
    /\ submits' = submits \ {s}
    /\ lastResult' = result
    /\ IF UpdateFailed(result) THEN updateCatch ELSE updateOk(result)
    /\ isSubmitting' = FALSE    \* finally
    /\ UNCHANGED <<user, uploadingImage, profileImage, profileImagePreview,
                   fields, formErrors, readers, uploads, onCloseCalled,
                   dialogOpen, lastUpload,
                   submitCount>>

(* The picture and the submission.  Of the text fields only the username   *)
(* is edited here, to one value the schema accepts and one it rejects; the *)
(* other fields and the Cancel button go through the same editField and    *)
(* handleSubmit, and SpecForm below runs them over all their values.  (The *)
(* product of the two is beyond what TLC enumerates.)                      *)
Next ==
    \/ \E f \in Files \cup {NULL} : handleImageChange(f)
    \/ \E f \in Files : readerLoaded(f)
    \/ \E f \in Files : readerFailed(f)
    \/ \E u \in uploads, resp \in Responses : uploadSettled(u, resp)
    \/ removeClick
    \/ \E v \in {Rep(UsernameMax), Rep(UsernameMax + 1)} :
          editField("username", v)
    \/ handleSubmit
    \/ \E s \in submits, result \in UpdateResults : updateSettled(s, result)

Spec == Init /\ [][Next]_vars

(* The form alone: the viewer edits every field, saves or cancels, and     *)
(* leaves the picture as it is.                                            *)
NextForm ==
    \/ cancelClick
    \/ \E v \in Usernames : editField("username", v)
    \/ \E v \in Bios : editField("bio", v)
    \/ \E v \in Websites : editField("website", v)
    \/ \E v \in Dates : editField("birthdate", v)
    \/ handleSubmit
    \/ \E s \in submits, result \in UpdateResults : updateSettled(s, result)

SpecForm == Init /\ [][NextForm]_vars

-----------------------------------------------------------------------------
(* Steps, recognised by what they do to the continuations in flight *)

\* the upload u settles in this step, and the try block threw
UploadFailsStep(u) ==
    u \in uploads /\ u \notin uploads' /\ lastUpload'.outcome = "failed"

\* the upload u settles in this step with an image URL
UploadSucceedsStep(u) ==
    u \in uploads /\ u \notin uploads' /\ lastUpload'.outcome = "ok"

\* the change event of the file input with file f
SelectsStep(f) == lastUpload' = Selected(f) /\ lastUpload' # lastUpload

\* the /api/upload requests issued in this step
NewUploads == uploads' \ uploads

\* the updateProfile calls made in this step
NewCalls == submits' \ submits

\* the updateProfile call s settles in this step
UpdateSettlesStep(s) == s \in submits /\ s \notin submits'

-----------------------------------------------------------------------------
(* C1 as stated: when an upload fails, the preview afterwards is the value *)
(* it had just before the failing file was selected, and profileImage is   *)
(* null.                                                                   *)
C1_RevertsToValueBeforeSelection ==
    [][\A u \in uploads :
          UploadFailsStep(u) =>
             /\ profileImagePreview' = u.before
             /\ profileImage' = NULL]_vars

(* C1 amended: when an upload fails, the failure handler leaves the        *)
(* preview at the persisted picture, user.profile?.pfp || null, whatever   *)
(* the preview was before the selection, and profileImage at null.         *)
C1_RevertsToPersisted ==
    [][\A u \in uploads :
          UploadFailsStep(u) =>
             /\ profileImagePreview' = (IF user.pfp \in {NULL, ""} THEN NULL ELSE user.pfp)
             /\ profileImage' = NULL]_vars

\* an upload has failed and every FileReader has fired: the preview is the
\* persisted picture, no file is pending
C1_Witness ==
    /\ lastUpload.outcome = "failed"
    /\ lastToast = "upload-failed"
    /\ uploads = {}
    /\ ~uploadingImage
    /\ profileImagePreview = PersistedUrl
    /\ profileImage = NULL
    /\ \A f \in Files : readers[f] = 0

(* C2 as stated: after an upload succeeded with URL U, and until the next  *)
(* file selection or Remove click, the preview is U.                       *)
C2_PreviewStaysUploadedUrl ==
    lastUpload.outcome = "ok" => profileImagePreview = lastUpload.url

(* C3 as stated: an updateProfile call made after an upload succeeded with *)
(* URL U, with no file selection or Remove click since, carries pfp = U;   *)
(* and every call carries the preview of the moment it is made.            *)
C3_SubmitsUploadedUrl ==
    [][\A s \in NewCalls :
          /\ s.payload.profile.pfp = profileImagePreview
          /\ lastUpload.outcome = "ok" => s.payload.profile.pfp = lastUpload.url]_vars

(* C4: updateProfile is never called while an upload is pending, and the   *)
(* uploadingImage flag that disables the submit button is up for as long   *)
(* as an upload is pending.                                                *)
C4_NoSubmitWhileUploading ==
    [][/\ uploads # {} => uploadingImage
       /\ NewCalls # {} => (uploads = {} /\ ~uploadingImage)]_vars

\* an upload is pending after an earlier updateProfile call was made
C4_Witness ==
    /\ uploads # {}
    /\ uploadingImage
    /\ submitCount > 0
    /\ submits = {}


C6_FailureLeavesFormIntact ==
    [][\A s \in submits :
          (UpdateSettlesStep(s) /\ lastResult' \notin Entities) =>
             /\ onUpdateCalls' = onUpdateCalls
             /\ lastToast' = "update-failed"
             /\ dialogOpen'
             /\ onCloseCalled' = onCloseCalled
             /\ fields' = fields
             /\ formErrors' = formErrors
             /\ profileImagePreview' = profileImagePreview
             /\ ~isSubmitting']_vars

\* a submission of an edited form came back falsy: nothing was notified, the
\* edited value is still there
C6_Witness ==
    /\ lastResult = NULL
    /\ submitCount = 1
    /\ submits = {}
    /\ lastToast = "update-failed"
    /\ onUpdateCalls = <<>>
    /\ fields.username = Rep(30)
    /\ lastUpload.outcome = "ok" /\ profileImagePreview = lastUpload.url
    /\ dialogOpen

(* C7 as stated: after an upload failed, and until the next file selection *)
(* or Remove click, the preview is the persisted picture and profileImage  *)
(* is null, whenever the FileReader callback fires.                        *)
C7_FailureStaysReverted ==
    lastUpload.outcome = "failed" =>
        /\ profileImagePreview = (IF user.pfp \in {NULL, ""} THEN NULL ELSE user.pfp)
        /\ profileImage = NULL

\* the file is larger than 5 MB
Over5MB(f) == FileSize(f) > 5242880

\* the top-level type of the file's MIME type is "image"
ImageMime(f) ==
    \E i \in 1..Len(FileType(f)) :
        /\ FileType(f)[i] = "/"
        /\ SubSeq(FileType(f), 1, i - 1) = <<"i","m","a","g","e">>

(* C8: no /api/upload request is issued for a file over 5 MB or of a       *)
(* non-image MIME type; selecting such a file shows an error notice and    *)
(* leaves the preview, profileImage and uploadingImage as they were.       *)
C8_BadFileNeverUploaded ==
    [][/\ \A u \in NewUploads : ~Over5MB(u.file) /\ ImageMime(u.file)
       /\ \A f \in Files :
            (SelectsStep(f) /\ (Over5MB(f) \/ ~ImageMime(f))) =>
               /\ NewUploads = {}
               /\ lastToast' \in {"file-size", "file-type", "missing-user"}
               /\ UNCHANGED <<profileImagePreview, profileImage,
                              uploadingImage, readers>>]_vars

\* the file of 5 MB + 1 byte was selected after an upload had succeeded: the
\* size notice is shown, nothing is in flight, the uploaded picture stays
C8_Witness ==
    /\ lastUpload = Selected("big.png")
    /\ lastToast = "file-size"
    /\ uploads = {}
    /\ ~uploadingImage
    /\ profileImage = "b.jpg"
    /\ profileImagePreview = "https://x/img.png"

(* C9: with the user id missing, a file selection issues no upload request *)
(* and a submission no updateProfile call; each shows the missing-user     *)
(* error, and preview, profileImage, uploadingImage and isSubmitting stay  *)
(* as they were.  (onSubmit runs once the resolver has accepted the        *)
(* fields.)                                                                *)
C9_MissingUserStopsBoth ==
    [][user.id = "" =>
         /\ NewUploads = {} /\ NewCalls = {}
         /\ uploads = {} /\ submits = {}
         /\ UNCHANGED <<profileImagePreview, profileImage, uploadingImage,
                        isSubmitting>>
         /\ (\E f \in Files : SelectsStep(f)) => lastToast' = "missing-user"
         /\ (formErrors' = {} /\ fields' = fields /\ lastUpload' = lastUpload
               /\ onCloseCalled' = onCloseCalled)
              => lastToast' = "missing-user"]_vars

\* without a user id a file was selected and the form submitted: the error
\* is shown and nothing started
C9_Witness ==
    /\ user.id = ""
    /\ lastUpload = Selected("a.png")
    /\ lastToast = "missing-user"
    /\ formErrors = {}
    /\ fields.username = Rep(30)
    /\ uploads = {} /\ submits = {} /\ submitCount = 0
    /\ ~uploadingImage /\ ~isSubmitting
    /\ profileImage = NULL

(* C10: the resolver reports the website exactly when it is neither empty  *)
(* nor a URL, and no updateProfile call is made with a reported field; a   *)
(* call made with an empty website carries profile.website = null, and     *)
(* with an empty bio profile.bio = null.                                   *)
C10_EmptyWebsiteIsAbsent ==
    [][/\ (formErrors' # formErrors \/ NewCalls # {}) =>
            ("website" \in formErrors'
               <=> (fields.website # <<>> /\ ~IsUrl(fields.website)))
       /\ NewCalls # {} => formErrors' = {}
       /\ \A s \in NewCalls :
            /\ s.payload.profile.website =
                  (IF fields.website = <<>> THEN TextNull ELSE fields.website)
            /\ s.payload.profile.bio =
                  (IF fields.bio = <<>> THEN TextNull ELSE fields.bio)]_vars

\* a call is in flight whose website and bio are null, made from a form
\* whose website and bio are empty
C10_Witness ==
    /\ \E s \in submits :
          /\ s.payload.profile.website = TextNull
          /\ s.payload.profile.bio = TextNull
    /\ fields.website = <<>>
    /\ fields.bio = <<>>
    /\ formErrors = {}

(* C11: for a username of length n, the resolver reports the username     *)
(* exactly when n < 3 or n > 30, and no updateProfile call is made with    *)
(* such a username; with nothing reported (lengths 3 and 30 included) and  *)
(* a user id, the submission makes the call, carrying that username.       *)
C11_UsernameLengthBlocks ==
    [][/\ (formErrors' # formErrors \/ NewCalls # {}) =>
            ("username" \in formErrors'
               <=> (Len(fields.username) < 3 \/ Len(fields.username) > 30))
       /\ \A s \in NewCalls :
            /\ Len(fields.username) >= 3 /\ Len(fields.username) <= 30
            /\ s.payload.username = fields.username
       /\ (formErrors' # formErrors /\ formErrors' = {} /\ user.id # "")
            => NewCalls # {}]_vars

\* a username of 30 letters passed validation and is out in a call
C11_Witness ==
    /\ \E s \in submits : Len(s.payload.username) = 30
    /\ Len(fields.username) = 30
    /\ formErrors = {}
    /\ isSubmitting

(* C12: uploadingImage is true exactly while an /api/upload request is     *)
(* outstanding and isSubmitting exactly while an updateProfile call is     *)
(* outstanding; the step in which a request settles, with a URL, an error  *)
(* answer or an exception, leaves its flag false.                          *)
C12_FlagsTrackRequests ==
    /\ [](/\ uploadingImage <=> uploads # {}
          /\ isSubmitting <=> submits # {})
    /\ [][/\ \A u \in uploads :
               (UploadFailsStep(u) \/ UploadSucceedsStep(u)) => ~uploadingImage'
          /\ \A s \in submits : UpdateSettlesStep(s) => ~isSubmitting'
          /\ NewUploads # {} => uploadingImage'
          /\ NewCalls # {} => isSubmitting']_vars

\* an upload has failed and its flag is back to false, with no upload left,
\* while an updateProfile call is still outstanding under its own flag
C12_Witness ==
    /\ lastUpload.outcome = "failed"
    /\ ~uploadingImage /\ uploads = {}
    /\ isSubmitting /\ submits # {}

(* C13: at no time are two /api/upload requests outstanding, nor two       *)
(* updateProfile calls; a request of either kind starts only when none of  *)
(* its kind is outstanding, so whatever settles is the newest of its kind. *)
C13_OneRequestOfAKind ==
    /\ [](/\ Cardinality(uploads) <= 1
          /\ Cardinality(submits) <= 1)
    /\ [][/\ NewUploads # {} => uploads = {} /\ Cardinality(NewUploads) = 1
          /\ NewCalls # {} => submits = {} /\ Cardinality(NewCalls) = 1]_vars

\* one request of each kind is outstanding at the same time
C13_Witness ==
    /\ Cardinality(uploads) = 1 /\ uploadingImage
    /\ Cardinality(submits) = 1 /\ isSubmitting
    /\ lastUpload.outcome = "selected"

====
